---- MODULE Spec2Model ----
(***************************************************************************)
(* A model of the Hex view mode of hahwul/Hex: the byte/text codec of      *)
(* utils.ts (hexToAscii, asciiToHex, parseHttpRaw, ensureCRLF) and the     *)
(* view of views/HexViewMode.vue (raw text -> byte buffer -> dump rows,    *)
(* the per-row edit modal, and the commit into the host editor).           *)
(*                                                                         *)
(* A JavaScript string is the sequence of its UTF-16 code units, a         *)
(* Uint8Array the sequence of its bytes.  A JavaScript number that may be  *)
(* NaN is <<n>> or <<>> (NaN).                                             *)
(***************************************************************************)
EXTENDS Integers, Sequences, FiniteSets, TLC

VARIABLES
    \* the codec harness: the function applied, its arguments, its result
    fn, in1, in2, out, parsed,
    \* the view's surroundings: props.request?.raw and props.response?.raw (or
    \* Undefined), whether location.hash includes "/replay", whether sdk.window
    \* exists, and the text of the host's active editor (or Undefined)
    request, response, isReplayTab, sdkWindow, editorDoc,
    \* the number of events the view has handled since its setup
    events,
    \* the view: the value of the computed raw, the byte buffer, the dump rows
    \* and the modal's stage
    raw, rawData, dumpLines, modalState,
    \* what the handler that ran last did: its name, the toasts it showed, the
    \* text it handed to editorView.dispatch (or Undefined), and whether it threw
    op, toasts, dispatched, dispatchError, threw,
    \* the HexEditor of HexEditor.ts: this.data, this.editable as rendered, the
    \* last input event (the cell's byte index and text), and the details of
    \* the change events dispatched so far
    hexEditorData, hexEditorEditable, hexEditorInput, hexEditorChanges,
    \* the whole-buffer view of the earlier revision: editMode, the text of the
    \* hex textarea, and its byte buffer (its rawData)
    editMode, editableHex, wholeRawData

codecVars == <<fn, in1, in2, out, parsed>>

hostVars == <<request, response, isReplayTab, sdkWindow, editorDoc>>

viewVars == <<raw, rawData, dumpLines, modalState>>

effectVars == <<op, toasts, dispatched, dispatchError, threw>>

hexEditorVars == <<hexEditorData, hexEditorEditable, hexEditorInput, hexEditorChanges>>

wholeVars == <<editMode, editableHex, wholeRawData>>

vars == <<codecVars, hostVars, events, viewVars, effectVars, hexEditorVars, wholeVars>>

(***************************************************************************)
(* Bounds of the model.                                                    *)
(***************************************************************************)
\* hex/ASCII strings are concatenations of at most this many atoms
MaxHexAtoms == 4
MaxAsciiAtoms == 3
\* raw HTTP texts are concatenations of at most this many atoms
MaxHttpAtoms == 4
\* texts of line breaks are concatenations of at most this many atoms
MaxCrlfAtoms == 5
\* a run of the HexEditor handles at most this many events
MaxCellEvents == 2
\* a run of the view handles at most this many events after its setup
MaxEvents == 4
\* the text of the whole-buffer textarea is a concatenation of at most this
\* many atoms, and a run of that view handles at most this many events
MaxWholeAtoms == 2
MaxWholeEvents == 3
\* the size limit of the watcher of raw (10240 in the code), scaled to the
\* lengths of the model's raw texts
maxSize == 20

(***************************************************************************)
(* Sequences and JavaScript string primitives.                             *)
(***************************************************************************)
Min(a, b) == IF a < b THEN a ELSE b

Max(a, b) == IF a < b THEN b ELSE a

\* s.substring(from) with a 0-based index
DropFirst(s, n) == SubSeq(s, n + 1, Len(s))

\* s.substring(0, n)
TakeFirst(s, n) == SubSeq(s, 1, Min(n, Len(s)))

StartsWith(s, p) == Len(p) <= Len(s) /\ SubSeq(s, 1, Len(p)) = p

\* s.indexOf(sep), 1-based; 0 when sep does not occur
IndexOf(s, sep) ==
    LET hits == {i \in 1..(Len(s) - Len(sep) + 1) : SubSeq(s, i, i + Len(sep) - 1) = sep}
    IN  IF hits = {} THEN 0 ELSE CHOOSE i \in hits : \A j \in hits : i <= j

RECURSIVE Split(_, _)
\* s.split(sep) for a non-empty separator
Split(s, sep) ==
    LET i == IndexOf(s, sep)
    IN  IF i = 0 THEN <<s>>
        ELSE <<SubSeq(s, 1, i - 1)>> \o Split(DropFirst(s, i - 1 + Len(sep)), sep)

RECURSIVE Join(_, _)
\* parts.join(sep)
Join(parts, sep) ==
    IF Len(parts) = 0 THEN <<>>
    ELSE IF Len(parts) = 1 THEN parts[1]
    ELSE parts[1] \o sep \o Join(Tail(parts), sep)

\* the code units JavaScript's \s, trim() and parseInt treat as white space
IsWhiteSpace(c) ==
    c \in {9, 10, 11, 12, 13, 32, 160, 5760, 8232, 8233, 8239, 8287, 12288, 65279}
          \cup (8192..8202)

\* the code units of \w
IsWordChar(c) == c \in (48..57) \cup (65..90) \cup (97..122) \cup {95}

IsHexDigit(c) == c \in (48..57) \cup (65..70) \cup (97..102)

HexDigitValue(c) ==
    IF c \in 48..57 THEN c - 48
    ELSE IF c \in 65..70 THEN c - 55
    ELSE c - 87

RECURSIVE TrimStart(_)
TrimStart(s) ==
    IF Len(s) > 0 /\ IsWhiteSpace(s[1]) THEN TrimStart(Tail(s)) ELSE s

RECURSIVE TrimEnd(_)
TrimEnd(s) ==
    IF Len(s) > 0 /\ IsWhiteSpace(s[Len(s)]) THEN TrimEnd(SubSeq(s, 1, Len(s) - 1)) ELSE s

\* s.trim()
Trim(s) == TrimEnd(TrimStart(s))

\* s.replace(/\s+/g, "")
StripWhiteSpace(s) == SelectSeq(s, LAMBDA c : ~IsWhiteSpace(c))

(***************************************************************************)
(* Numbers: NaN, parseInt(s, 16), n.toString(16).padStart(2, "0").          *)
(***************************************************************************)
NaN == <<>>

isNaN(x) == x = NaN

RECURSIVE HexPrefixValue(_, _)
\* the value of the longest prefix of hex digits of s, read after acc
HexPrefixValue(s, acc) ==
    IF Len(s) > 0 /\ IsHexDigit(s[1])
    THEN HexPrefixValue(Tail(s), 16 * acc + HexDigitValue(s[1]))
    ELSE acc

\* parseInt(s, 16): leading white space, a sign, an 0x prefix, then the
\* longest prefix of hex digits; NaN when that prefix is empty
parseInt16(s) ==
    LET t == TrimStart(s)
        neg == Len(t) > 0 /\ t[1] = 45
        u == IF Len(t) > 0 /\ t[1] \in {43, 45} THEN Tail(t) ELSE t
        v == IF Len(u) >= 2 /\ u[1] = 48 /\ u[2] \in {120, 88} THEN DropFirst(u, 2) ELSE u
    IN  IF Len(v) = 0 \/ ~IsHexDigit(v[1]) THEN NaN
        ELSE IF neg THEN <<0 - HexPrefixValue(v, 0)>>
        ELSE <<HexPrefixValue(v, 0)>>

HexDigitChar(d) == IF d < 10 THEN 48 + d ELSE 87 + d

RECURSIVE NatToString16(_)
NatToString16(n) ==
    IF n < 16 THEN <<HexDigitChar(n)>>
    ELSE NatToString16(n \div 16) \o <<HexDigitChar(n % 16)>>

\* x.toString(16) for an integer or NaN
toString16(x) ==
    IF isNaN(x) THEN <<78, 97, 78>>
    ELSE IF x[1] < 0 THEN <<45>> \o NatToString16(0 - x[1])
    ELSE NatToString16(x[1])

\* s.padStart(n, "0")
padStart(s, n) ==
    IF Len(s) >= n THEN s ELSE [i \in 1..(n - Len(s)) |-> 48] \o s

\* byteToHex without the padding to two digits
byteToHexUnpadded(x) == toString16(x)

\* b.toString(16).padStart(2, "0")
byteToHex(x) == padStart(toString16(x), 2)

\* byteToChar with the lower limit of the printable range exclusive
byteToCharSpaceUnprintable(b) == IF b > 32 /\ b < 127 THEN b ELSE 46

\* (b >= 32 && b < 127 ? String.fromCharCode(b) : ".")
byteToChar(b) == IF b >= 32 /\ b < 127 THEN b ELSE 46

(***************************************************************************)
(* utils.ts                                                                *)
(***************************************************************************)
\* an absent optional argument
Undefined == <<0 - 1>>

\* hex.split(" ").filter((h) => h.length === 2)
hexParts(hex) == SelectSeq(Split(hex, <<32>>), LAMBDA h : Len(h) = 2)

hexToAscii(hex) ==
    LET parts == hexParts(hex)
        bytes == SelectSeq([k \in 1..Len(parts) |-> parseInt16(parts[k])],
                           LAMBDA b : ~isNaN(b))
    IN  [k \in 1..Len(bytes) |-> byteToChar(bytes[k][1])]

\* asciiByte never looking at originalHex: "." always encodes as 0x2e
asciiByteIgnoringOriginal(ascii, originalHex, i) == <<ascii[i + 1]>>

\* the value pushed for the character at 0-based position i of ascii
asciiByte(ascii, originalHex, i) ==
    LET char == ascii[i + 1]
    IN  IF char = 46
        THEN IF originalHex # Undefined /\ originalHex # <<>>
                /\ i < Len(hexParts(originalHex))
             THEN parseInt16(hexParts(originalHex)[i + 1])
             ELSE <<46>>
        ELSE <<char>>

asciiToHex(ascii, originalHex) ==
    LET bytes == [k \in 1..Len(ascii) |-> asciiByte(ascii, originalHex, k - 1)]
    IN  Join([k \in 1..Len(bytes) |-> byteToHex(bytes[k])], <<32>>)

\* parseHttpRaw's null result
Null == [null |-> TRUE]

\* a regular expression that does not match
NoMatch == <<0 - 2>>

crlf == <<13, 10>>

boundary == <<13, 10, 13, 10>>

UNKNOWN == <<85, 78, 75, 78, 79, 87, 78>>

\* the length of the longest prefix of \w characters
RECURSIVE WordPrefixLen(_)
WordPrefixLen(s) ==
    IF Len(s) > 0 /\ IsWordChar(s[1]) THEN 1 + WordPrefixLen(Tail(s)) ELSE 0

\* firstLine.match(/^(\w+)\s+/): the captured group, or NoMatch
methodMatch(firstLine) ==
    LET n == WordPrefixLen(firstLine)
    IN  IF n > 0 /\ n < Len(firstLine) /\ IsWhiteSpace(firstLine[n + 1])
        THEN SubSeq(firstLine, 1, n)
        ELSE NoMatch

\* "__proto__": on the plain object headers, headers["__proto__"] = value calls
\* the setter of Object.prototype, which ignores a string and adds no property
protoKey == <<95, 95, 112, 114, 111, 116, 111, 95, 95>>

RECURSIVE headersOf(_, _)
\* the loop over lines[1..]: later lines overwrite earlier ones of the same name
headersOf(lines, headers) ==
    IF Len(lines) = 0 THEN headers
    ELSE LET line == lines[1]
             colonIndex == IndexOf(line, <<58>>) - 1
             name == Trim(TakeFirst(line, colonIndex))
             value == Trim(DropFirst(line, colonIndex + 1))
         IN  IF Len(line) > 0 /\ colonIndex > 0 /\ name # protoKey
             THEN headersOf(Tail(lines),
                            [n \in DOMAIN headers \cup {name} |->
                                IF n = name THEN value ELSE headers[n]])
             ELSE headersOf(Tail(lines), headers)

emptyHeaders == [n \in {} |-> <<>>]

\* parseHttpRaw also returning null for an empty body
parseHttpRawRequiringBody(rawText) ==
    IF Len(rawText) = 0 THEN Null
    ELSE LET parts == Split(rawText, boundary)
         IN  IF Len(parts) < 2 \/ Len(Join(Tail(parts), boundary)) = 0 THEN Null
             ELSE [method |-> UNKNOWN, headers |-> emptyHeaders,
                   body |-> Join(Tail(parts), boundary)]

\* parseHttpRaw taking parts[1] for the body instead of rejoining parts.slice(1)
parseHttpRawSecondPartOnly(rawText) ==
    IF Len(rawText) = 0 THEN Null
    ELSE LET parts == Split(rawText, boundary)
         IN  IF Len(parts) < 2 THEN Null
             ELSE [method |-> UNKNOWN, headers |-> emptyHeaders, body |-> parts[2]]

parseHttpRaw(rawText) ==
    IF Len(rawText) = 0 THEN Null
    ELSE LET parts == Split(rawText, boundary)
         IN  IF Len(parts) < 2 THEN Null
             ELSE LET headerSection == parts[1]
                      body == Join(Tail(parts), boundary)
                      lines == Split(headerSection, crlf)
                      firstLine == lines[1]
                      m == methodMatch(firstLine)
                  IN  [method |-> IF m # NoMatch THEN m ELSE UNKNOWN,
                       headers |-> headersOf(Tail(lines), emptyHeaders),
                       body |-> body]

RECURSIVE ensureCRLFDoubling(_)
\* ensureCRLF with /\n/g for its pattern: the LF of a CRLF is converted again
ensureCRLFDoubling(text) ==
    IF Len(text) = 0 THEN <<>>
    ELSE IF text[1] = 10 THEN <<13, 10>> \o ensureCRLFDoubling(Tail(text))
    ELSE <<text[1]>> \o ensureCRLFDoubling(Tail(text))

RECURSIVE ensureCRLF(_)
\* rawData.replace(/\r?\n/g, "\r\n")
ensureCRLF(text) ==
    IF Len(text) = 0 THEN <<>>
    ELSE IF Len(text) >= 2 /\ text[1] = 13 /\ text[2] = 10
         THEN crlf \o ensureCRLF(DropFirst(text, 2))
    ELSE IF text[1] = 10 THEN crlf \o ensureCRLF(Tail(text))
    ELSE <<text[1]>> \o ensureCRLF(Tail(text))

(***************************************************************************)
(* TextEncoder / TextDecoder (UTF-8).                                      *)
(***************************************************************************)
RECURSIVE utf8Encode(_)
\* new TextEncoder().encode(s): a lone surrogate encodes as U+FFFD
utf8Encode(s) ==
    IF Len(s) = 0 THEN <<>>
    ELSE LET c == s[1]
         IN  IF c < 128 THEN <<c>> \o utf8Encode(Tail(s))
             ELSE IF c < 2048
                  THEN <<192 + (c \div 64), 128 + (c % 64)>> \o utf8Encode(Tail(s))
             ELSE IF c \in 55296..56319 /\ Len(s) >= 2 /\ s[2] \in 56320..57343
                  THEN LET cp == 65536 + (c - 55296) * 1024 + (s[2] - 56320)
                       IN  <<240 + (cp \div 262144), 128 + ((cp \div 4096) % 64),
                             128 + ((cp \div 64) % 64), 128 + (cp % 64)>>
                               \o utf8Encode(DropFirst(s, 2))
             ELSE IF c \in 55296..57343
                  THEN <<239, 191, 189>> \o utf8Encode(Tail(s))
             ELSE <<224 + (c \div 4096), 128 + ((c \div 64) % 64), 128 + (c % 64)>>
                      \o utf8Encode(Tail(s))

RECURSIVE utf8CodePoints(_, _, _, _, _)
\* the UTF-8 decoder's loop: cp is the code point being read, needed the
\* continuation bytes still to come, lower..upper the range of the next one;
\* a malformed sequence gives U+FFFD and the offending byte is read again
utf8CodePoints(bytes, cp, needed, lower, upper) ==
    IF Len(bytes) = 0 THEN (IF needed > 0 THEN <<65533>> ELSE <<>>)
    ELSE LET b == bytes[1]
             rest == Tail(bytes)
         IN  IF needed = 0
             THEN IF b <= 127 THEN <<b>> \o utf8CodePoints(rest, 0, 0, 128, 191)
                  ELSE IF b \in 194..223 THEN utf8CodePoints(rest, b - 192, 1, 128, 191)
                  ELSE IF b \in 224..239
                       THEN utf8CodePoints(rest, b - 224, 2,
                                           IF b = 224 THEN 160 ELSE 128,
                                           IF b = 237 THEN 159 ELSE 191)
                  ELSE IF b \in 240..244
                       THEN utf8CodePoints(rest, b - 240, 3,
                                           IF b = 240 THEN 144 ELSE 128,
                                           IF b = 244 THEN 143 ELSE 191)
                  ELSE <<65533>> \o utf8CodePoints(rest, 0, 0, 128, 191)
             ELSE IF b \notin lower..upper
                  THEN <<65533>> \o utf8CodePoints(bytes, 0, 0, 128, 191)
             ELSE IF needed = 1
                  THEN <<cp * 64 + (b - 128)>> \o utf8CodePoints(rest, 0, 0, 128, 191)
             ELSE utf8CodePoints(rest, cp * 64 + (b - 128), needed - 1, 128, 191)

RECURSIVE toUtf16(_)
toUtf16(cps) ==
    IF Len(cps) = 0 THEN <<>>
    ELSE IF cps[1] > 65535
         THEN <<55296 + ((cps[1] - 65536) \div 1024), 56320 + ((cps[1] - 65536) % 1024)>>
                  \o toUtf16(Tail(cps))
    ELSE <<cps[1]>> \o toUtf16(Tail(cps))

\* new TextDecoder().decode(bytes): not fatal, a leading byte order mark dropped
utf8Decode(bytes) ==
    LET body == IF StartsWith(bytes, <<239, 187, 191>>) THEN DropFirst(bytes, 3) ELSE bytes
    IN  toUtf16(utf8CodePoints(body, 0, 0, 128, 191))

(***************************************************************************)
(* views/HexViewMode.vue                                                   *)
(***************************************************************************)
\* isRequest: !!props.request
isRequestOf(req) == req # Undefined

\* the computed raw
rawOf(req, resp, replay, window, doc) ==
    LET rawText ==
            IF replay /\ isRequestOf(req)
            THEN IF window /\ doc # Undefined THEN doc ELSE <<>>
            ELSE IF req # Undefined /\ Len(req) > 0 THEN req
            ELSE IF resp # Undefined /\ Len(resp) > 0 THEN resp
            ELSE <<>>
    IN  IF Len(rawText) > 0 /\ isRequestOf(req) THEN ensureCRLF(rawText) ELSE rawText

\* bufferOf without the size limit
bufferOfUncapped(newRaw) == utf8Encode(newRaw)

\* the watcher of raw: the new value of rawData
bufferOf(newRaw) ==
    IF Len(newRaw) = 0 THEN <<>>
    ELSE utf8Encode(IF Len(newRaw) > maxSize THEN TakeFirst(newRaw, maxSize) ELSE newRaw)

\* "No data to display"
noData ==
    <<78, 111, 32, 100, 97, 116, 97, 32, 116, 111, 32, 100, 105, 115, 112, 108, 97, 121>>

\* formatLines without the row for an empty buffer
formatLinesNoSentinel(data) ==
    [k \in 1..((Len(data) + 15) \div 16) |->
        LET i == 16 * (k - 1)
            chunk == SubSeq(data, i + 1, Min(i + 16, Len(data)))
        IN  [offset |-> padStart(NatToString16(i), 8),
             hex |-> Join([j \in 1..Len(chunk) |-> byteToHex(<<chunk[j]>>)], <<32>>),
             ascii |-> [j \in 1..Len(chunk) |-> byteToChar(chunk[j])],
             editing |-> FALSE]]

\* formatLines labelling its rows with the row's index instead of the index
\* of the row's first byte
formatLinesRowOffsets(data) ==
    IF Len(data) = 0
    THEN <<[offset |-> <<>>, hex |-> <<>>, ascii |-> noData, editing |-> FALSE]>>
    ELSE [k \in 1..((Len(data) + 15) \div 16) |->
            LET i == 16 * (k - 1)
                chunk == SubSeq(data, i + 1, Min(i + 16, Len(data)))
            IN  [offset |-> padStart(NatToString16(k - 1), 8),
                 hex |-> Join([j \in 1..Len(chunk) |-> byteToHex(<<chunk[j]>>)], <<32>>),
                 ascii |-> [j \in 1..Len(chunk) |-> byteToChar(chunk[j])],
                 editing |-> FALSE]]

\* isTruncated: props?.request?.raw && raw.length > 10240, as a boolean
isTruncatedOf(req) == req # Undefined /\ Len(req) > maxSize

\* the watcher of rawData: the new value of dumpLines
formatLines(data) ==
    IF Len(data) = 0
    THEN <<[offset |-> <<>>, hex |-> <<>>, ascii |-> noData, editing |-> FALSE]>>
    ELSE [k \in 1..((Len(data) + 15) \div 16) |->
            LET i == 16 * (k - 1)
                chunk == SubSeq(data, i + 1, Min(i + 16, Len(data)))
            IN  [offset |-> padStart(NatToString16(i), 8),
                 hex |-> Join([j \in 1..Len(chunk) |-> byteToHex(<<chunk[j]>>)], <<32>>),
                 ascii |-> [j \in 1..Len(chunk) |-> byteToChar(chunk[j])],
                 editing |-> FALSE]]

RECURSIVE hexWindows(_)
\* updateLine's loop over the 2-character windows of allHex; new Uint8Array
\* wraps each value into 0..255
hexWindows(allHex) ==
    IF Len(allHex) = 0 THEN <<>>
    ELSE LET byte == parseInt16(TakeFirst(allHex, 2))
         IN  (IF isNaN(byte) THEN <<>> ELSE <<byte[1] % 256>>)
                 \o hexWindows(DropFirst(allHex, 2))

\* updateLine's new rawData: every row's hex joined, white space removed, parsed
rowsToBytes(lines) ==
    hexWindows(StripWhiteSpace(Join([k \in 1..Len(lines) |-> lines[k].hex], <<32>>)))

\* asciiToHex of the view: a "." takes the byte of modalState.originalHex's
\* token at the same position
modalAsciiByte(ascii, originalHex, i) ==
    LET char == ascii[i + 1]
        originalBytes == hexParts(originalHex)
    IN  IF char = 46
        THEN IF i < Len(originalBytes) THEN parseInt16(originalBytes[i + 1]) ELSE <<46>>
        ELSE <<char>>

modalAsciiToHex(ascii, originalHex) ==
    LET bytes == [k \in 1..Len(ascii) |-> modalAsciiByte(ascii, originalHex, k - 1)]
    IN  Join([k \in 1..Len(bytes) |-> byteToHex(bytes[k])], <<32>>)

\* modalState.currentLine: no line (null), a row of dumpLines by its index, or
\* a row object that dumpLines no longer holds
noLine == [attached |-> FALSE, row |-> 0]

staleLine == [attached |-> FALSE, row |-> 1]

lineAt(r) == [attached |-> TRUE, row |-> r]

\* a regenerated dumpLines holds new row objects
detach(line) == IF line = noLine THEN noLine ELSE staleLine

(***************************************************************************)
(* The view's inputs.                                                      *)
(***************************************************************************)
\* "GET / HTTP/1.1" CRLF CRLF: 18 characters, two dump rows
getText ==
    <<71, 69, 84, 32, 47, 32, 72, 84, 84, 80, 47, 49, 46, 49, 13, 10, 13, 10>>

\* "POST /x HTTP/1.1" CRLF CRLF "ab" LF "cd": 25 characters
postText ==
    <<80, 79, 83, 84, 32, 47, 120, 32, 72, 84, 84, 80, 47, 49, 46, 49, 13, 10, 13, 10,
      97, 98, 10, 99, 100>>

\* "", "a" LF "b", e-acute, and the two messages
RawTexts == {<<>>, <<97, 10, 98>>, <<233>>, getText, postText}

\* the props the host passes: a request, a response, or neither
PropsSet ==
    {<<t, Undefined>> : t \in RawTexts}
        \cup {<<Undefined, <<97, 10, 98>>>>, <<Undefined, <<233>>>>, <<Undefined, postText>>,
              <<Undefined, Undefined>>, <<<<>>, <<233>>>>}

\* the texts the replay tab's editor may hold at setup
EditorTexts == {<<97, 10, 98>>, postText}

\* typed into the modal's hex textarea: "", "0a", "41 0a 42", "4", "zz 41", "c3"
HexInputs ==
    {<<>>, <<48, 97>>, <<52, 49, 32, 48, 97, 32, 52, 50>>, <<52>>,
     <<122, 122, 32, 52, 49>>, <<99, 51>>}

\* typed into the modal's ASCII textarea: "", ".", "a.", "..a"
AsciiInputs == {<<>>, <<46>>, <<97, 46>>, <<46, 46, 97>>}

\* what editorView.dispatch does: it returns, throws an Error with a message,
\* or throws a value that is no Error
DispatchOutcomes ==
    {[kind |-> "ok", message |-> ""],
     [kind |-> "Error", message |-> "read-only"],
     [kind |-> "Error", message |-> ""],
     [kind |-> "thrown", message |-> "a string"]}

(***************************************************************************)
(* The view's handlers.  A handler's action includes the watchers it       *)
(* triggers: they run before the next event.                               *)
(***************************************************************************)
\* editorView.dispatch was not called, or it returned
noError == [kind |-> "none", message |-> ""]

noEffects ==
    /\ events' = events + 1
    /\ toasts' = <<>>
    /\ dispatched' = Undefined
    /\ dispatchError' = noError
    /\ threw' = FALSE

closedModal ==
    [showModal |-> FALSE, currentLine |-> noLine, currentHex |-> <<>>,
     originalHex |-> <<>>, currentAscii |-> <<>>, originalAscii |-> <<>>]

\* setup: both watchers run at once ({ immediate: true })
InitView ==
    /\ \E p \in PropsSet : request = p[1] /\ response = p[2]
    /\ isReplayTab \in BOOLEAN
    /\ sdkWindow \in BOOLEAN
    \* sdk.window?.getActiveEditor?.(): no editor without sdk.window
    /\ editorDoc \in IF ~sdkWindow THEN {Undefined}
                    ELSE IF isReplayTab THEN {Undefined} \cup EditorTexts
                    ELSE {Undefined, <<97, 10, 98>>}
    /\ raw = rawOf(request, response, isReplayTab, sdkWindow, editorDoc)
    /\ rawData = bufferOf(raw)
    /\ dumpLines = formatLines(rawData)
    /\ modalState = closedModal
    /\ events = 0
    /\ op = "setup"
    /\ toasts = <<>>
    /\ dispatched = Undefined
    /\ dispatchError = noError
    /\ threw = FALSE

\* the host passes other props: raw is computed again and, when it changed,
\* its watcher replaces rawData and the watcher of rawData replaces dumpLines
SetProps ==
    \E p \in PropsSet :
        LET newRaw == rawOf(p[1], p[2], isReplayTab, sdkWindow, editorDoc)
        IN  /\ request' = p[1]
            /\ response' = p[2]
            /\ raw' = newRaw
            /\ IF newRaw # raw
               THEN /\ rawData' = bufferOf(newRaw)
                    /\ dumpLines' = formatLines(rawData')
                    /\ modalState' = [modalState EXCEPT !.currentLine = detach(@)]
               ELSE UNCHANGED <<rawData, dumpLines, modalState>>
            /\ op' = "props"
            /\ noEffects
            /\ UNCHANGED <<isReplayTab, sdkWindow, editorDoc>>

\* a double click on row r
openEditModal(r) ==
    /\ ~modalState.showModal
    /\ modalState' =
         [showModal |-> TRUE, currentLine |-> lineAt(r),
          currentHex |-> dumpLines[r].hex, originalHex |-> dumpLines[r].hex,
          currentAscii |-> hexToAscii(dumpLines[r].hex),
          originalAscii |-> hexToAscii(dumpLines[r].hex)]
    /\ op' = "openEditModal"
    /\ noEffects
    /\ UNCHANGED <<hostVars, raw, rawData, dumpLines>>

\* input in the hex textarea (v-model, then @input)
updateAsciiFromHex(hex) ==
    /\ modalState.showModal
    /\ modalState' = [modalState EXCEPT !.currentHex = hex, !.currentAscii = hexToAscii(hex)]
    /\ op' = "updateAsciiFromHex"
    /\ noEffects
    /\ UNCHANGED <<hostVars, raw, rawData, dumpLines>>

\* input in the ASCII textarea (v-model, then @input)
updateHexFromAscii(ascii) ==
    /\ modalState.showModal
    /\ modalState' = [modalState EXCEPT
                        !.currentAscii = ascii,
                        !.currentHex = modalAsciiToHex(ascii, modalState.originalHex)]
    /\ op' = "updateHexFromAscii"
    /\ noEffects
    /\ UNCHANGED <<hostVars, raw, rawData, dumpLines>>

\* editedLines keeping the edited row only
editedLinesRowOnly(lines, line, hex) ==
    IF line.attached THEN <<[lines[line.row] EXCEPT !.hex = hex]>> ELSE lines

\* the rows updateLine reads: the edited row holds the staged hex when it is
\* still a row of dumpLines
editedLines(lines, line, hex) ==
    IF line.attached THEN [lines EXCEPT ![line.row].hex = hex] ELSE lines

\* OK: the staged hex goes into the row, updateLine rebuilds rawData and the
\* watcher of rawData regenerates dumpLines
applyEdit ==
    /\ modalState.showModal
    /\ IF modalState.currentLine # noLine
       THEN /\ rawData' = rowsToBytes(editedLines(dumpLines, modalState.currentLine,
                                                  modalState.currentHex))
            /\ dumpLines' = formatLines(rawData')
            /\ modalState' = [modalState EXCEPT !.showModal = FALSE,
                                               !.currentLine = staleLine]
       ELSE /\ modalState' = [modalState EXCEPT !.showModal = FALSE]
            /\ UNCHANGED <<rawData, dumpLines>>
    /\ op' = "applyEdit"
    /\ noEffects
    /\ UNCHANGED <<hostVars, raw>>

\* cancelEdit writing the staged hex into the row as applyEdit does
cancelEditWritingRow ==
    /\ modalState.showModal
    /\ rawData' = rowsToBytes(editedLines(dumpLines, modalState.currentLine,
                                          modalState.currentHex))
    /\ dumpLines' = formatLines(rawData')
    /\ modalState' = [modalState EXCEPT !.showModal = FALSE]
    /\ op' = "cancelEdit"
    /\ noEffects
    /\ UNCHANGED <<hostVars, raw>>

cancelEdit ==
    /\ modalState.showModal
    /\ modalState' = [modalState EXCEPT !.showModal = FALSE]
    /\ op' = "cancelEdit"
    /\ noEffects
    /\ UNCHANGED <<hostVars, raw, rawData, dumpLines>>

\* hexDiff with an entry for the positions both token lists have only
hexDiffOfCommonPositions(originalHex, currentHex) ==
    LET original == hexParts(originalHex)
        current == hexParts(currentHex)
        minLength == Min(Len(original), Len(current))
    IN  [k \in 1..minLength |->
            [index |-> k - 1, original |-> original[k], current |-> current[k],
             changed |-> original[k] # current[k]]]

\* hexDiff: the computed diff of modalState.originalHex and
\* modalState.currentHex
hexDiff(originalHex, currentHex) ==
    LET original == hexParts(originalHex)
        current == hexParts(currentHex)
        maxLength == Max(Len(original), Len(current))
    IN  [k \in 1..maxLength |->
            LET orig == IF k <= Len(original) /\ Len(original[k]) > 0 THEN original[k] ELSE <<>>
                curr == IF k <= Len(current) /\ Len(current[k]) > 0 THEN current[k] ELSE <<>>
            IN  [index |-> k - 1, original |-> orig, current |-> curr,
                 changed |-> orig # curr]]

successToast == [message |-> <<"Request updated successfully">>, variant |-> "success"]

\* `Failed to update request: ${errorMessage}`, errorMessage being the Error's
\* message or "Unknown error"
errorToast(outcome) ==
    [message |-> <<"Failed to update request: ",
                   IF outcome.kind = "Error" THEN outcome.message ELSE "Unknown error">>,
     variant |-> "error"]

\* the text saveChanges hands to editorView.dispatch as the insert
committedText(data) == utf8Decode(data)

\* what a run of saveChanges leaves: the editor's text, the toasts shown, the
\* text handed to dispatch, what dispatch threw, and whether that left
\* saveChanges
saveResult(doc, shown, insert, error, escaped) ==
    [editorDoc |-> doc, toasts |-> shown, dispatched |-> insert,
     dispatchError |-> error, threw |-> escaped]

\* saveChanges without the check of isReplayTab
saveChangesInAnyTab(req, replay, window, doc, data, outcome) ==
    IF ~isRequestOf(req) THEN saveResult(doc, <<>>, Undefined, noError, FALSE)
    ELSE IF window /\ doc # Undefined
    THEN IF outcome.kind = "ok"
         THEN saveResult(committedText(data), <<successToast>>, committedText(data), noError,
                         FALSE)
         ELSE saveResult(doc, <<errorToast(outcome)>>, committedText(data), outcome, FALSE)
    ELSE saveResult(doc, IF window THEN <<successToast>> ELSE <<>>, Undefined, noError, FALSE)

\* saveChanges without its try ... catch: the error of dispatch leaves it
saveChangesWithoutCatch(req, replay, window, doc, data, outcome) ==
    IF ~isRequestOf(req) \/ ~replay THEN saveResult(doc, <<>>, Undefined, noError, FALSE)
    ELSE IF window /\ doc # Undefined
    THEN IF outcome.kind = "ok"
         THEN saveResult(committedText(data), <<successToast>>, committedText(data), noError,
                         FALSE)
         ELSE saveResult(doc, <<>>, committedText(data), outcome, TRUE)
    ELSE saveResult(doc, IF window THEN <<successToast>> ELSE <<>>, Undefined, noError, FALSE)

\* saveChanges, outcome being what editorView.dispatch does if it is called.
\* props.sdk.window?.showToast?.(...) shows nothing without sdk.window, and
\* then there is no getActiveEditor either.
saveChangesOf(req, replay, window, doc, data, outcome) ==
    IF ~isRequestOf(req) THEN saveResult(doc, <<>>, Undefined, noError, FALSE)
    ELSE IF ~replay THEN saveResult(doc, <<>>, Undefined, noError, FALSE)
    ELSE IF window /\ doc # Undefined
    THEN IF outcome.kind = "ok"
         THEN saveResult(committedText(data), <<successToast>>, committedText(data), noError,
                         FALSE)
         ELSE saveResult(doc, <<errorToast(outcome)>>, committedText(data), outcome, FALSE)
    ELSE saveResult(doc, IF window THEN <<successToast>> ELSE <<>>, Undefined, noError, FALSE)

saveChanges(outcome) ==
    LET r == saveChangesOf(request, isReplayTab, sdkWindow, editorDoc, rawData, outcome)
    IN  /\ op' = "saveChanges"
        /\ events' = events + 1
        /\ editorDoc' = r.editorDoc
        /\ toasts' = r.toasts
        /\ dispatched' = r.dispatched
        /\ dispatchError' = r.dispatchError
        /\ threw' = r.threw
        /\ UNCHANGED <<request, response, isReplayTab, sdkWindow, viewVars>>

\* no input event yet
noInput == [index |-> 0 - 1, value |-> <<>>]

\* no HexEditor is constructed
hexEditorIdle ==
    /\ hexEditorData = <<>>
    /\ hexEditorEditable = FALSE
    /\ hexEditorInput = noInput
    /\ hexEditorChanges = <<>>

\* no whole-buffer view is mounted
wholeIdle ==
    /\ editMode = FALSE
    /\ editableHex = <<>>
    /\ wholeRawData = <<>>

\* the codec harness is idle while the view runs
codecIdle ==
    /\ fn = "init"
    /\ in1 = <<>>
    /\ in2 = Undefined
    /\ out = <<>>
    /\ parsed = Null

Init == codecIdle /\ hexEditorIdle /\ wholeIdle /\ InitView

\* one event: the host passes props or the user acts, and its handler runs
Handled(handler) ==
    events < MaxEvents /\ handler /\ UNCHANGED <<codecVars, hexEditorVars, wholeVars>>

Next ==
    \/ Handled(SetProps)
    \/ \E r \in 1..Len(dumpLines) : Handled(openEditModal(r))
    \/ \E hex \in HexInputs : Handled(updateAsciiFromHex(hex))
    \/ \E ascii \in AsciiInputs : Handled(updateHexFromAscii(ascii))
    \/ Handled(applyEdit)
    \/ Handled(cancelEdit)
    \/ \E outcome \in DispatchOutcomes : Handled(saveChanges(outcome))

Spec == Init /\ [][Next]_vars

(***************************************************************************)
(* The row editor on its own: the view holds a buffer that earlier edits   *)
(* left, and the user opens rows, types hex and applies or cancels.        *)
(***************************************************************************)
\* "GET / HTTP/1.1" CRLF CRLF "a": 19 bytes in two rows, the second of one byte
twoRows == getText \o <<97>>

\* every single byte, the empty buffer, and buffers of several bytes and rows:
\* 32 zero bytes, the 20 bytes 0..19, the 33 bytes 0..32
Buffers ==
    {<<b>> : b \in 0..255}
        \cup {<<>>, <<4, 5>>, <<0, 255, 10>>, <<13, 10, 127, 128>>, getText, twoRows}
        \cup {[i \in 1..32 |-> 0], [i \in 1..20 |-> i - 1], [i \in 1..33 |-> i - 1]}

InitEdit ==
    /\ codecIdle
    /\ hexEditorIdle
    /\ wholeIdle
    /\ request = Undefined
    /\ response = Undefined
    /\ isReplayTab = FALSE
    /\ sdkWindow = TRUE
    /\ editorDoc = Undefined
    /\ raw = <<>>
    /\ rawData \in Buffers
    /\ dumpLines = formatLines(rawData)
    /\ modalState = closedModal
    /\ events = 0
    /\ op = "none"
    /\ toasts = <<>>
    /\ dispatched = Undefined
    /\ dispatchError = noError
    /\ threw = FALSE

NextEdit ==
    \/ \E r \in 1..Len(dumpLines) : Handled(openEditModal(r))
    \/ \E hex \in HexInputs : Handled(updateAsciiFromHex(hex))
    \/ Handled(applyEdit)
    \/ Handled(cancelEdit)

SpecEdit == InitEdit /\ [][NextEdit]_vars

\* the buffers of the runs of the modal with both textareas: empty, one row
\* with bytes outside 0x20-0x7E, "a" CR LF "b", two rows, three rows
ModalBuffers ==
    {<<>>, <<0, 255, 10>>, <<97, 13, 10, 98>>, twoRows, [i \in 1..33 |-> i - 1]}

InitModal ==
    /\ codecIdle
    /\ hexEditorIdle
    /\ wholeIdle
    /\ request = Undefined
    /\ response = Undefined
    /\ isReplayTab = FALSE
    /\ sdkWindow = TRUE
    /\ editorDoc = Undefined
    /\ raw = <<>>
    /\ rawData \in ModalBuffers
    /\ dumpLines = formatLines(rawData)
    /\ modalState = closedModal
    /\ events = 0
    /\ op = "none"
    /\ toasts = <<>>
    /\ dispatched = Undefined
    /\ dispatchError = noError
    /\ threw = FALSE

NextModal ==
    \/ \E r \in 1..Len(dumpLines) : Handled(openEditModal(r))
    \/ \E hex \in HexInputs : Handled(updateAsciiFromHex(hex))
    \/ \E ascii \in AsciiInputs : Handled(updateHexFromAscii(ascii))
    \/ Handled(applyEdit)
    \/ Handled(cancelEdit)

SpecModal == InitModal /\ [][NextModal]_vars

\* no view is mounted while the codec harness runs
viewIdle ==
    /\ request = Undefined
    /\ response = Undefined
    /\ isReplayTab = FALSE
    /\ sdkWindow = FALSE
    /\ editorDoc = Undefined
    /\ raw = <<>>
    /\ rawData = <<>>
    /\ dumpLines = formatLines(<<>>)
    /\ modalState = closedModal
    /\ events = 0
    /\ op = "none"
    /\ toasts = <<>>
    /\ dispatched = Undefined
    /\ dispatchError = noError
    /\ threw = FALSE

(***************************************************************************)
(* HexEditor.ts: a grid of one input per byte, 16 to a row.                *)
(***************************************************************************)
\* /^[0-9a-fA-F]{0,2}$/.test(val)
isCellText(val) == Len(val) <= 2 /\ \A k \in 1..Len(val) : IsHexDigit(val[k])

\* the listener writing at the cell's index within its row
cellWriteRowRelative(bytes, i, idx, val) ==
    [bytes EXCEPT ![idx + 1] = parseInt16(IF Len(val) = 0 THEN <<48>> ELSE val)[1] % 256]

\* this.data[i + idx] = parseInt(val || "0", 16), i the row's first index and
\* idx the cell's index within the row
cellWrite(bytes, i, idx, val) ==
    [bytes EXCEPT ![i + idx + 1] = parseInt16(IF Len(val) = 0 THEN <<48>> ELSE val)[1] % 256]

\* 2 bytes, 1 byte, no byte, and the 17 bytes 0..16 (two rows)
HexEditorBuffers == {<<72, 101>>, <<255>>, <<>>, [k \in 1..17 |-> k - 1]}

\* texts of a cell: "", "F", "a5", "0g", "123"
CellTexts == {<<>>, <<70>>, <<97, 53>>, <<48, 103>>, <<49, 50, 51>>}

\* new HexEditor(element, data, editable)
InitHexEditor ==
    /\ codecIdle
    /\ viewIdle
    /\ wholeIdle
    /\ hexEditorData \in HexEditorBuffers
    /\ hexEditorEditable \in BOOLEAN
    /\ hexEditorInput = noInput
    /\ hexEditorChanges = <<>>

\* an input event on the cell idx of the row that starts at byte i; only an
\* editable rendering has cells with a listener
cellInput(i, idx, val) ==
    /\ events < MaxCellEvents
    /\ hexEditorEditable
    /\ i + idx < Len(hexEditorData)
    /\ hexEditorInput' = [index |-> i + idx, value |-> val]
    /\ IF isCellText(val)
       THEN /\ hexEditorData' = cellWrite(hexEditorData, i, idx, val)
            /\ hexEditorChanges' = Append(hexEditorChanges, hexEditorData')
       ELSE UNCHANGED <<hexEditorData, hexEditorChanges>>
    /\ events' = events + 1
    /\ UNCHANGED <<hexEditorEditable, codecVars, hostVars, viewVars, effectVars, wholeVars>>

setData(bytes) ==
    /\ events < MaxCellEvents
    /\ hexEditorData' = bytes
    /\ hexEditorInput' = noInput
    /\ events' = events + 1
    /\ UNCHANGED <<hexEditorEditable, hexEditorChanges, codecVars, hostVars, viewVars,
                   effectVars, wholeVars>>

setEditable(flag) ==
    /\ events < MaxCellEvents
    /\ hexEditorEditable' = flag
    /\ hexEditorInput' = noInput
    /\ events' = events + 1
    /\ UNCHANGED <<hexEditorData, hexEditorChanges, codecVars, hostVars, viewVars,
                   effectVars, wholeVars>>

NextHexEditor ==
    \/ \E row \in 0..1, idx \in 0..15, val \in CellTexts : cellInput(16 * row, idx, val)
    \/ \E bytes \in HexEditorBuffers : setData(bytes)
    \/ \E flag \in BOOLEAN : setEditable(flag)

SpecHexEditor == InitHexEditor /\ [][NextHexEditor]_vars

(***************************************************************************)
(* The codec harness: Init draws the arguments, an action applies one      *)
(* function of utils.ts to them.                                           *)
(***************************************************************************)
RECURSIVE Concats(_, _)
\* the concatenations of at most n atoms
Concats(atoms, n) ==
    IF n = 0 THEN {<<>>}
    ELSE LET prev == Concats(atoms, n - 1)
         IN  prev \cup {p \o a : p \in prev, a \in atoms}

\* "48", "7f", "20", "4C", "4Z", "ZZ", "6", " ", tab
HexAtoms ==
    {<<52, 56>>, <<55, 102>>, <<50, 48>>, <<52, 67>>, <<52, 90>>, <<90, 90>>,
     <<54>>, <<32>>, <<9>>}

HexStrings == Concats(HexAtoms, MaxHexAtoms)

\* "A", "B", ".", " ", "~", DEL, the euro sign
AsciiAtoms == {<<65>>, <<66>>, <<46>>, <<32>>, <<126>>, <<127>>, <<8364>>}

AsciiStrings == Concats(AsciiAtoms, MaxAsciiAtoms)

\* originalHex: absent, "", "41 00 42", "41", "4A 7f", "ZZ 00 0a", "1  0d"
OriginalHexes ==
    {Undefined, <<>>, <<52, 49, 32, 48, 48, 32, 52, 50>>, <<52, 49>>,
     <<52, 65, 32, 55, 102>>, <<90, 90, 32, 48, 48, 32, 48, 97>>,
     <<49, 32, 32, 48, 100>>}

\* "G", "-", " ", ":", "b", CRLF, CRLF CRLF, LF, "__proto__:"
HttpAtoms ==
    {<<71>>, <<45>>, <<32>>, <<58>>, <<98>>, crlf, boundary, <<10>>, protoKey \o <<58>>}

HttpStrings == Concats(HttpAtoms, MaxHttpAtoms)

\* "a", CR, LF
CrlfAtoms == {<<97>>, <<13>>, <<10>>}

CrlfStrings == Concats(CrlfAtoms, MaxCrlfAtoms)

InitHex ==
    /\ fn = "init"
    /\ out = <<>>
    /\ parsed = Null
    /\ \/ in1 \in HexStrings /\ in2 = Undefined
       \/ in1 \in AsciiStrings /\ in2 \in OriginalHexes
    /\ viewIdle
    /\ hexEditorIdle
    /\ wholeIdle

CallHexToAscii ==
    /\ fn = "init"
    /\ fn' = "hexToAscii"
    /\ out' = hexToAscii(in1)
    /\ UNCHANGED <<in1, in2, parsed, hostVars, events, viewVars, effectVars, hexEditorVars, wholeVars>>

CallAsciiToHex ==
    /\ fn = "init"
    /\ fn' = "asciiToHex"
    /\ out' = asciiToHex(in1, in2)
    /\ UNCHANGED <<in1, in2, parsed, hostVars, events, viewVars, effectVars, hexEditorVars, wholeVars>>

\* hexToAscii(asciiToHex(in1, in2)): hexToAscii applied to the last result
CallHexToAsciiOfResult ==
    /\ fn = "asciiToHex"
    /\ fn' = "hexToAscii(asciiToHex)"
    /\ out' = hexToAscii(out)
    /\ UNCHANGED <<in1, in2, parsed, hostVars, events, viewVars, effectVars, hexEditorVars, wholeVars>>

NextHex == CallHexToAscii \/ CallAsciiToHex \/ CallHexToAsciiOfResult

SpecHex == InitHex /\ [][NextHex]_vars

InitHttp ==
    /\ fn = "init"
    /\ out = <<>>
    /\ parsed = Null
    /\ in1 \in HttpStrings \cup CrlfStrings
    /\ in2 = Undefined
    /\ viewIdle
    /\ hexEditorIdle
    /\ wholeIdle

CallParseHttpRaw ==
    /\ fn = "init"
    /\ fn' = "parseHttpRaw"
    /\ parsed' = parseHttpRaw(in1)
    /\ UNCHANGED <<in1, in2, out, hostVars, events, viewVars, effectVars, hexEditorVars, wholeVars>>

CallEnsureCRLF ==
    /\ fn = "init"
    /\ fn' = "ensureCRLF"
    /\ out' = ensureCRLF(in1)
    /\ UNCHANGED <<in1, in2, parsed, hostVars, events, viewVars, effectVars, hexEditorVars, wholeVars>>

\* ensureCRLF(ensureCRLF(in1)): ensureCRLF applied to the last result
CallEnsureCRLFOfResult ==
    /\ fn = "ensureCRLF"
    /\ fn' = "ensureCRLF(ensureCRLF)"
    /\ out' = ensureCRLF(out)
    /\ UNCHANGED <<in1, in2, parsed, hostVars, events, viewVars, effectVars, hexEditorVars, wholeVars>>

NextHttp == CallParseHttpRaw \/ CallEnsureCRLF \/ CallEnsureCRLFOfResult

SpecHttp == InitHttp /\ [][NextHttp]_vars

(***************************************************************************)
(* The whole-buffer edit mode of the earlier revision of the view: one     *)
(* textarea holds the hex of the whole buffer.                             *)
(***************************************************************************)
\* "48", "4z", "zz", "-", " "
WholeHexAtoms == {<<52, 56>>, <<52, 122>>, <<122, 122>>, <<45>>, <<32>>}

\* what the user leaves in the textarea
WholeHexTexts == Concats(WholeHexAtoms, MaxWholeAtoms)

\* the raw texts of the whole-buffer view: "", "a" LF "b", e-acute, and a
\* text longer than the size limit
WholeRawTexts == {<<>>, <<97, 10, 98>>, <<233>>, postText}

\* the watcher of raw: editableHex is the buffer's bytes in hex, joined by " "
editableHexOf(data) == Join([k \in 1..Len(data) |-> byteToHex(<<data[k]>>)], <<32>>)

\* updateFromHex: white space removed, then parseInt(hex.substr(i, 2), 16) for
\* i = 0, 2, 4, ...; a NaN is skipped; new Uint8Array wraps each value
updateFromHex(text) == hexWindows(StripWhiteSpace(text))

\* setup: the watcher of raw runs at once ({ immediate: true })
InitWhole ==
    /\ codecIdle
    /\ hexEditorIdle
    /\ request = Undefined
    /\ response = Undefined
    /\ isReplayTab = FALSE
    /\ sdkWindow = FALSE
    /\ editorDoc = Undefined
    /\ raw \in WholeRawTexts
    /\ rawData = <<>>
    /\ dumpLines = formatLines(<<>>)
    /\ modalState = closedModal
    /\ events = 0
    /\ op = "none"
    /\ toasts = <<>>
    /\ dispatched = Undefined
    /\ dispatchError = noError
    /\ threw = FALSE
    /\ editMode = FALSE
    /\ wholeRawData = bufferOf(raw)
    /\ editableHex = editableHexOf(wholeRawData)

WholeHandled(handler) ==
    /\ events < MaxWholeEvents
    /\ handler
    /\ events' = events + 1
    /\ UNCHANGED <<codecVars, hostVars, rawData, dumpLines, modalState, toasts, dispatched,
                   dispatchError, threw, hexEditorVars>>

\* the watcher of raw leaving editableHex as it is
wholeRawChangedKeepingHex(newRaw) ==
    /\ newRaw # raw
    /\ raw' = newRaw
    /\ wholeRawData' = bufferOf(newRaw)
    /\ op' = "watchRaw"
    /\ UNCHANGED <<editMode, editableHex>>

\* raw changes and its watcher runs
wholeRawChanged(newRaw) ==
    /\ newRaw # raw
    /\ raw' = newRaw
    /\ wholeRawData' = bufferOf(newRaw)
    /\ editableHex' = editableHexOf(wholeRawData')
    /\ op' = "watchRaw"
    /\ UNCHANGED editMode

toggleEditMode ==
    /\ editMode' = ~editMode
    /\ op' = "toggleEditMode"
    /\ UNCHANGED <<raw, editableHex, wholeRawData>>

\* the user changes the textarea, shown in edit mode only: v-model stores the
\* text and @input runs updateFromHex
hexTextInput(text) ==
    /\ editMode
    /\ text # editableHex
    /\ editableHex' = text
    /\ wholeRawData' = updateFromHex(editableHex')
    /\ op' = "updateFromHex"
    /\ UNCHANGED <<raw, editMode>>

NextWhole ==
    \/ \E newRaw \in WholeRawTexts : WholeHandled(wholeRawChanged(newRaw))
    \/ WholeHandled(toggleEditMode)
    \/ \E text \in WholeHexTexts : WholeHandled(hexTextInput(text))

SpecWhole == InitWhole /\ [][NextWhole]_vars

(***************************************************************************)
(* Claims about utils.ts.                                                  *)
(***************************************************************************)
IsPrintable(s) == \A i \in 1..Len(s) : s[i] \in 32..126

\* C5: for every string s over 0x20-0x7E (the "." included),
\* hexToAscii(asciiToHex(s)) with no originalHex is s again.
C5_RoundTripOnPrintable ==
    (fn = "hexToAscii(asciiToHex)" /\ in2 = Undefined /\ IsPrintable(in1))
        => out = in1

\* C5's case: the round trip was applied to " .~" (both ends of the range and a dot)
C5_Witness ==
    /\ fn = "hexToAscii(asciiToHex)"
    /\ in2 = Undefined
    /\ in1 = <<32, 46, 126>>
    /\ out = <<32, 46, 126>>

RECURSIVE C6_Claimed(_)
\* hexToAscii as C6 states it: tokens delimited by white space, one character
\* for each token made of exactly two hex digits, nothing for any other token
C6_Claimed(s) ==
    IF Len(s) = 0 THEN <<>>
    ELSE IF IsWhiteSpace(s[1]) THEN C6_Claimed(Tail(s))
    ELSE LET ends == {n \in 1..Len(s) : n = Len(s) \/ IsWhiteSpace(s[n + 1])}
             n == CHOOSE k \in ends : \A j \in ends : k <= j
             b == 16 * HexDigitValue(s[1]) + HexDigitValue(s[2])
         IN  (IF n = 2 /\ IsHexDigit(s[1]) /\ IsHexDigit(s[2])
              THEN <<IF b \in 32..126 THEN b ELSE 46>>
              ELSE <<>>) \o C6_Claimed(DropFirst(s, n))

\* C6: hexToAscii tokenizes by white space and returns one character for each
\* token that is two hex digits (the byte's character in 0x20-0x7E, "." otherwise),
\* and no character for any other token.
C6_OnlyTwoHexDigitTokensCount ==
    fn = "hexToAscii" => out = C6_Claimed(in1)

\* originalHex's 2-character tokens, none when originalHex is absent
C7_Original == IF in2 = Undefined THEN <<>> ELSE SelectSeq(Split(in2, <<32>>), LAMBDA h : Len(h) = 2)

\* the byte C7 expects for the character at position i (1-based) of in1
C7_Expected(i) ==
    IF in1[i] = 46 /\ i <= Len(C7_Original)
    THEN 16 * HexDigitValue(C7_Original[i][1]) + HexDigitValue(C7_Original[i][2])
    ELSE in1[i]

\* the reused token, if any, is two hex digits: it has a byte
C7_Covered(i) ==
    (in1[i] = 46 /\ i <= Len(C7_Original))
        => (IsHexDigit(C7_Original[i][1]) /\ IsHexDigit(C7_Original[i][2]))

\* tok is a lowercase hex numeral of at least two digits, and its value is v
C7_IsHexOf(tok, v) ==
    /\ Len(tok) >= 2
    /\ \A k \in 1..Len(tok) : tok[k] \in (48..57) \cup (97..102)
    /\ HexPrefixValue(tok, 0) = v

\* C7: in asciiToHex(ascii, originalHex) a "." at position i yields the byte of
\* originalHex's i-th 2-character token (a two-hex-digit token) when there is one,
\* and 0x2e otherwise; every other character yields its own code point.
C7_DotReusesOriginalByte ==
    fn = "asciiToHex" =>
        LET toks == Split(out, <<32>>)
        IN  /\ Len(in1) = 0 => out = <<>>
            /\ Len(in1) > 0 =>
                  /\ Len(toks) = Len(in1)
                  /\ \A i \in 1..Len(in1) :
                        C7_Covered(i) => C7_IsHexOf(toks[i], C7_Expected(i))
            /\ (in1 = <<65, 46, 66>> /\ in2 = <<52, 49, 32, 48, 48, 32, 52, 50>>)
                  => out = <<52, 49, 32, 48, 48, 32, 52, 50>>
            /\ (in1 = <<65, 46, 66>> /\ in2 = Undefined)
                  => out = <<52, 49, 32, 50, 101, 32, 52, 50>>
            /\ (in1 = <<65, 46, 46>> /\ in2 = <<52, 49>>)
                  => out = <<52, 49, 32, 50, 101, 32, 50, 101>>

\* C7's case: asciiToHex("A.B", "41 00 42") was applied and reused the 00
C7_Witness ==
    /\ fn = "asciiToHex"
    /\ in1 = <<65, 46, 66>>
    /\ in2 = <<52, 49, 32, 48, 48, 32, 52, 50>>
    /\ out = <<52, 49, 32, 48, 48, 32, 52, 50>>

\* s contains CRLF CRLF
HasBoundary(s) == \E i \in 1..(Len(s) - 3) : SubSeq(s, i, i + 3) = <<13, 10, 13, 10>>

\* C8: parseHttpRaw returns null exactly when its input is empty or holds no
\* CRLF CRLF; for every other input it returns a {method, headers, body} record.
C8_NullExactlyWithoutBoundary ==
    fn = "parseHttpRaw" =>
        /\ (parsed = Null) <=> (in1 = <<>> \/ ~HasBoundary(in1))
        /\ parsed # Null => DOMAIN parsed = {"method", "headers", "body"}

\* C8's case: a text with a boundary and a malformed header line (a colon at
\* index 0) was parsed into a record
C8_Witness ==
    /\ fn = "parseHttpRaw"
    /\ in1 = <<71>> \o <<13, 10>> \o <<58>> \o <<13, 10, 13, 10>>
    /\ parsed # Null
    /\ parsed.headers = emptyHeaders

\* the position of the first CRLF CRLF of s
FirstBoundary(s) ==
    CHOOSE i \in 1..(Len(s) - 3) :
        /\ SubSeq(s, i, i + 3) = <<13, 10, 13, 10>>
        /\ \A j \in 1..(i - 1) : SubSeq(s, j, j + 3) # <<13, 10, 13, 10>>

\* C9: for a raw text with a CRLF CRLF, the body is exactly what follows the first
\* CRLF CRLF, so header section + CRLF CRLF + body is the raw text.
C9_BodyIsRestAfterFirstBoundary ==
    (fn = "parseHttpRaw" /\ HasBoundary(in1)) =>
        /\ parsed # Null
        /\ parsed.body = SubSeq(in1, FirstBoundary(in1) + 4, Len(in1))
        /\ SubSeq(in1, 1, FirstBoundary(in1) - 1) \o <<13, 10, 13, 10>> \o parsed.body = in1

\* C9's case: the body itself holds a later CRLF CRLF
C9_Witness ==
    /\ fn = "parseHttpRaw"
    /\ parsed # Null
    /\ Len(parsed.body) > 4
    /\ HasBoundary(parsed.body)

\* the request line: the raw text up to its first CRLF
C10_RequestLine ==
    LET ends == {i \in 1..(Len(in1) - 1) : SubSeq(in1, i, i + 1) = <<13, 10>>}
    IN  SubSeq(in1, 1, (CHOOSE i \in ends : \A j \in ends : i <= j) - 1)

\* the longest prefix of the request line without white space
C10_Token ==
    LET line == C10_RequestLine
        stops == {n \in 0..Len(line) : n = Len(line) \/ IsWhiteSpace(line[n + 1])}
    IN  SubSeq(line, 1, CHOOSE n \in stops : \A m \in stops : n <= m)

\* the request line begins with a non-empty token followed by white space
C10_HasToken == Len(C10_Token) > 0 /\ Len(C10_Token) < Len(C10_RequestLine)

\* C10: for every accepted raw text, method is the first whitespace-delimited
\* token of the request line whenever the line begins with a non-empty token
\* followed by white space, and "UNKNOWN" only when there is no such token.
C10_MethodIsFirstToken ==
    (fn = "parseHttpRaw" /\ parsed # Null) =>
        /\ C10_HasToken => parsed.method = C10_Token
        /\ parsed.method = <<85, 78, 75, 78, 79, 87, 78>> => ~C10_HasToken

\* the header lines of in1: the lines of its header section after the first
C11_Lines == Tail(Split(SubSeq(in1, 1, FirstBoundary(in1) - 1), <<13, 10>>))

\* line k has a colon at an index greater than 0 (0-based)
C11_HasPair(k) == IndexOf(C11_Lines[k], <<58>>) > 1

C11_Name(k) ==
    Trim(SubSeq(C11_Lines[k], 1, IndexOf(C11_Lines[k], <<58>>) - 1))

C11_Value(k) ==
    Trim(SubSeq(C11_Lines[k], IndexOf(C11_Lines[k], <<58>>) + 1, Len(C11_Lines[k])))

\* C11: every header line with a colon at an index greater than 0 adds the
\* mapping trim(before the first colon) -> trim(after it), a repeated name
\* keeping the last line's value; every other line adds nothing.
C11_HeadersAreTrimmedPairs ==
    (fn = "parseHttpRaw" /\ parsed # Null) =>
        LET pairs == {k \in 1..Len(C11_Lines) : C11_HasPair(k)}
        IN  /\ DOMAIN parsed.headers = {C11_Name(k) : k \in pairs}
            /\ \A k \in pairs :
                  (\A j \in pairs : j > k => C11_Name(j) # C11_Name(k))
                      => parsed.headers[C11_Name(k)] = C11_Value(k)

\* every LF of text is immediately preceded by a CR
EveryLFFollowsCR(text) ==
    \A i \in 1..Len(text) : text[i] = 10 => i > 1 /\ text[i - 1] = 13

RECURSIVE C12_Collapse(_)
\* text with every CR that an LF follows removed: its line breaks as bare LFs
C12_Collapse(text) ==
    IF Len(text) = 0 THEN <<>>
    ELSE IF Len(text) >= 2 /\ text[1] = 13 /\ text[2] = 10
         THEN <<10>> \o C12_Collapse(DropFirst(text, 2))
    ELSE <<text[1]>> \o C12_Collapse(Tail(text))

\* C12: ensureCRLF turns every LF without a CR before it into CRLF, keeps every
\* CRLF as one CRLF and changes nothing else (a lone CR stays); so every LF of
\* its result follows a CR and applying it twice is applying it once.
C12_EnsureCRLFNormalizesOnce ==
    /\ fn = "ensureCRLF" =>
          /\ EveryLFFollowsCR(out)
          /\ C12_Collapse(out) = C12_Collapse(in1)
          /\ Len(out) = Len(C12_Collapse(in1))
                          + Cardinality({i \in 1..Len(in1) : in1[i] = 10})
    /\ fn = "ensureCRLF(ensureCRLF)" => out = ensureCRLF(in1)

\* ensureCRLF was applied twice to LF CR CR LF: a bare LF, a lone CR and a CRLF
C12_Witness ==
    /\ fn = "ensureCRLF(ensureCRLF)"
    /\ in1 = <<10, 13, 13, 10>>
    /\ out = <<13, 10, 13, 13, 10>>

(***************************************************************************)
(* Claims about the view's commit and its row editor.                      *)
(***************************************************************************)
\* C1: on every commit the text handed to the editor's dispatch is the decoded
\* buffer with its line endings normalised to CRLF, so every LF in it follows
\* a CR, whatever edits the buffer went through.
C1_WrittenTextIsCRLFNormalized ==
    op = "saveChanges" /\ dispatched # Undefined
        => /\ dispatched = ensureCRLF(utf8Decode(rawData))
           /\ EveryLFFollowsCR(dispatched)

\* the view is bound to a request and runs in the replay tab
C2_MayCommit == isRequestOf(request) /\ isReplayTab

\* C2: a run of saveChanges replaces the editor's text or shows a toast only
\* when the view is bound to a request in the replay tab; for a view of a
\* response only, and in every other tab, it changes nothing and shows nothing.
C2_CommitOnlyForRequestInReplay ==
    [][op' = "saveChanges" /\ ~C2_MayCommit
          => /\ toasts' = <<>>
             /\ dispatched' = Undefined
             /\ ~threw'
             /\ UNCHANGED <<hostVars, viewVars>>]_vars

\* saveChanges ran in another tab than replay on a view of a request whose
\* buffer an edit changed, with an editor at hand; and nothing happened
C2_Witness ==
    /\ op = "saveChanges"
    /\ isRequestOf(request)
    /\ ~isReplayTab
    /\ editorDoc # Undefined
    /\ rawData # bufferOf(raw)
    /\ toasts = <<>>
    /\ dispatched = Undefined

\* C3: when editorView.dispatch throws during saveChanges, saveChanges catches
\* it, shows exactly one toast, of variant error, that carries the Error's
\* message, or "Unknown error" when what was thrown is no Error, shows no
\* success toast, and returns normally.
C3_DispatchFailureBecomesOneErrorToast ==
    op = "saveChanges" /\ dispatchError # noError
        => /\ Len(toasts) = 1
           /\ toasts[1].variant = "error"
           /\ toasts[1].message[1] = "Failed to update request: "
           /\ dispatchError.kind = "Error" /\ dispatchError.message # ""
                  => toasts[1].message[2] = dispatchError.message
           /\ dispatchError.kind # "Error" => toasts[1].message[2] = "Unknown error"
           /\ ~threw

\* dispatch threw an Error with a message and the error toast carries it
C3_Witness ==
    /\ op = "saveChanges"
    /\ dispatchError = [kind |-> "Error", message |-> "read-only"]
    /\ toasts = <<[message |-> <<"Failed to update request: ", "read-only">>,
                   variant |-> "error"]>>
    /\ ~threw

\* C4: parsing the hex of the rows the formatter made of the buffer, the way
\* updateLine parses them, gives the buffer back byte for byte; so OK on a row
\* whose staged hex is still the hex the row was opened with leaves the
\* buffer's bytes as they were.
C4_FormatThenParseIsIdentity ==
    /\ [](rowsToBytes(formatLines(rawData)) = rawData /\ dumpLines = formatLines(rawData))
    /\ [][op' = "applyEdit" /\ modalState.currentHex = modalState.originalHex
              => rawData' = rawData]_vars

\* OK was pressed on an unchanged row of a buffer with CR, LF, 0x7f and 0x80
C4_Witness ==
    /\ op = "applyEdit"
    /\ modalState.currentHex = modalState.originalHex
    /\ modalState.currentLine = staleLine
    /\ rawData = <<13, 10, 127, 128>>

(***************************************************************************)
(* Claims about the dump rows and the buffer.                              *)
(***************************************************************************)
\* tok is n lowercase hex digits of value v
IsLowerHex(tok, n, v) ==
    /\ Len(tok) = n
    /\ \A i \in 1..Len(tok) : tok[i] \in (48..57) \cup (97..102)
    /\ HexPrefixValue(tok, 0) = v

\* C13: a non-empty buffer of n bytes has ceil(n/16) rows; row k (from 0) is
\* labelled with 16k as 8 zero-padded lowercase hex digits and holds the 2-digit
\* zero-padded lowercase hex of bytes 16k .. min(16k+16, n)-1 in order, joined
\* by single spaces, so every row but the last holds 16 tokens.
C13_RowsAreChunksOfSixteen ==
    Len(rawData) > 0 =>
        LET n == Len(rawData)
        IN  /\ 16 * (Len(dumpLines) - 1) < n
            /\ n <= 16 * Len(dumpLines)
            /\ \A k \in 1..Len(dumpLines) :
                  LET toks == Split(dumpLines[k].hex, <<32>>)
                      first == 16 * (k - 1)
                  IN  /\ IsLowerHex(dumpLines[k].offset, 8, first)
                      /\ Len(toks) = (IF first + 16 <= n THEN 16 ELSE n - first)
                      /\ \A j \in 1..Len(toks) : IsLowerHex(toks[j], 2, rawData[first + j])

\* an applied edit left a buffer of 20 bytes, and the rows made of it are one
\* of 16 tokens and one of 4
C13_Witness ==
    /\ op = "applyEdit"
    /\ Len(rawData) = 20
    /\ Len(dumpLines) = 2
    /\ Len(Split(dumpLines[1].hex, <<32>>)) = 16
    /\ Len(Split(dumpLines[2].hex, <<32>>)) = 4
    /\ dumpLines[2].offset = <<48, 48, 48, 48, 48, 48, 49, 48>>

\* C14: whenever the buffer is empty the rows are exactly one sentinel row
\* (empty offset, empty hex, ASCII "No data to display"); so after setup, and
\* after any props changes and applied edits, there is always at least one row.
C14_EmptyBufferHasSentinelRow ==
    /\ Len(dumpLines) >= 1
    /\ Len(rawData) = 0 =>
          /\ Len(dumpLines) = 1
          /\ dumpLines[1].offset = <<>>
          /\ dumpLines[1].hex = <<>>
          /\ dumpLines[1].ascii =
                <<78, 111, 32, 100, 97, 116, 97, 32, 116, 111, 32, 100, 105, 115, 112, 108,
                  97, 121>>

\* an applied edit emptied a buffer that the raw text had filled, and the rows
\* are the sentinel row
C14_Witness ==
    /\ op = "applyEdit"
    /\ Len(raw) > 0
    /\ rawData = <<>>
    /\ Len(dumpLines) = 1
    /\ dumpLines[1].hex = <<>>

\* the byte encoding of the first min(Len(text), maxSize) characters of text
C15_Expected(text) ==
    utf8Encode([i \in 1..(IF Len(text) <= maxSize THEN Len(text) ELSE maxSize) |-> text[i]])

\* C15: whenever the buffer is made from the raw text, at setup and when the
\* raw text changes, it is the byte encoding of the first min(length, maxSize)
\* characters of that text: a text within the limit is encoded whole, a longer
\* one is cut to exactly maxSize characters first, an empty one gives an empty
\* buffer.
C15_BufferIsCappedEncoding ==
    /\ op = "setup" => rawData = C15_Expected(raw)
    /\ [][raw' # raw => rawData' = C15_Expected(raw')]_vars

\* new props brought a raw text longer than the limit, and the buffer holds the
\* bytes of its first maxSize characters
C15_Witness ==
    /\ op = "props"
    /\ Len(raw) > maxSize
    /\ Len(rawData) = maxSize
    /\ rawData = [i \in 1..maxSize |-> raw[i]]

\* the text the buffer is built from, before any normalisation: the replay
\* editor's text for a request in the replay tab, else the request's raw text,
\* else the response's
C16_Source ==
    IF isReplayTab /\ request # Undefined
    THEN IF sdkWindow /\ editorDoc # Undefined THEN editorDoc ELSE <<>>
    ELSE IF request # Undefined /\ request # <<>> THEN request
    ELSE IF response # Undefined THEN response
    ELSE <<>>

\* C16: the truncation flag is true in exactly the states where the source text
\* of the buffer (the request's raw text, the response's, or the replay
\* editor's text) is longer than the limit.
C16_TruncatedIffSourceLonger ==
    isTruncatedOf(request) <=> Len(C16_Source) > maxSize

\* C17: for every input string and any originalHex, asciiToHex returns one
\* token per input character, each exactly two lowercase hex digits, joined by
\* single spaces; the empty string for an empty input.
C17_OneTwoDigitTokenPerCharacter ==
    fn = "asciiToHex" =>
        /\ Len(in1) = 0 => out = <<>>
        /\ Len(in1) > 0 =>
              LET toks == Split(out, <<32>>)
              IN  /\ Len(toks) = Len(in1)
                  /\ \A i \in 1..Len(toks) :
                        /\ Len(toks[i]) = 2
                        /\ \A j \in 1..2 : toks[i][j] \in (48..57) \cup (97..102)

\* hex is two-hex-digit tokens separated by single spaces, or empty
C19_IsTokens(hex) ==
    \/ hex = <<>>
    \/ /\ Len(hex) % 3 = 2
       /\ \A k \in 1..Len(hex) :
             IF k % 3 = 0 THEN hex[k] = 32
             ELSE hex[k] \in (48..57) \cup (65..70) \cup (97..102)

\* the bytes of such tokens
C19_Bytes(hex) ==
    [k \in 1..((Len(hex) + 1) \div 3) |->
        16 * HexDigitValue(hex[3 * k - 2]) + HexDigitValue(hex[3 * k - 1])]

\* C19: OK on the modal of row r closes the modal and sets the buffer to the
\* parse, by 2-character windows, of all rows' hex joined and stripped of white
\* space, row r holding the staged hex and the other rows what they show; when
\* the staged hex is two-hex-digit tokens separated by spaces, the bytes of the
\* rows before r and after r stay, in order, around the staged bytes.
C19_ApplyRebuildsFromAllRows ==
    [][op' = "applyEdit" /\ modalState.currentLine.attached =>
          LET r == modalState.currentLine.row
              staged == modalState.currentHex
              shown == [k \in 1..Len(dumpLines) |->
                          IF k = r THEN staged ELSE dumpLines[k].hex]
              before == SubSeq(rawData, 1, 16 * (r - 1))
              after == SubSeq(rawData, 16 * r + 1, Len(rawData))
          IN  /\ ~modalState'.showModal
              /\ rawData' = hexWindows(StripWhiteSpace(Join(shown, <<32>>)))
              /\ dumpLines' = formatLines(rawData')
              /\ C19_IsTokens(staged) => rawData' = before \o C19_Bytes(staged) \o after]_vars

\* "41 0a 42" was applied to the middle row of three: 16 bytes, the 3 staged
\* bytes, and the byte of the last row
C19_Witness ==
    /\ op = "applyEdit"
    /\ modalState.currentHex = <<52, 49, 32, 48, 97, 32, 52, 50>>
    /\ rawData = [k \in 1..16 |-> k - 1] \o <<65, 10, 66, 32>>

(***************************************************************************)
(* Claims about HexEditor.ts.                                              *)
(***************************************************************************)
\* text is 0 to 2 hex digits
C18_IsHexText(text) ==
    /\ Len(text) \in 0..2
    /\ \A k \in 1..Len(text) : text[k] \in (48..57) \cup (65..70) \cup (97..102)

\* the value of 0 to 2 hex digits, the empty text meaning 0
C18_Value(text) ==
    IF Len(text) = 0 THEN 0
    ELSE IF Len(text) = 1 THEN HexDigitValue(text[1])
    ELSE 16 * HexDigitValue(text[1]) + HexDigitValue(text[2])

\* C18: an input event on the cell of byte j whose text is 0 to 2 hex digits
\* sets byte j to that value (0 for the empty text), leaves every other byte
\* as it was and dispatches one change event whose detail is the whole buffer;
\* an input with any other text changes no byte and dispatches nothing.
C18_CellInputWritesOneByte ==
    [][hexEditorInput' # noInput =>
          LET j == hexEditorInput'.index + 1
              text == hexEditorInput'.value
          IN  IF C18_IsHexText(text)
              THEN /\ Len(hexEditorData') = Len(hexEditorData)
                   /\ hexEditorData'[j] = C18_Value(text)
                   /\ \A k \in 1..Len(hexEditorData) :
                         k # j => hexEditorData'[k] = hexEditorData[k]
                   /\ hexEditorChanges' = Append(hexEditorChanges, hexEditorData')
              ELSE /\ hexEditorData' = hexEditorData
                   /\ hexEditorChanges' = hexEditorChanges]_vars

\* "F" was typed into the cell of byte 16, the first of the second row, and
\* the one change event carries the buffer with that byte set to 0x0f
C18_Witness ==
    /\ hexEditorInput = [index |-> 16, value |-> <<70>>]
    /\ hexEditorData = [k \in 1..17 |-> IF k = 17 THEN 15 ELSE k - 1]
    /\ Len(hexEditorChanges) = 1
    /\ hexEditorChanges[1] = hexEditorData

(***************************************************************************)
(* Claims about the whole-buffer edit mode.                                *)
(***************************************************************************)
\* the bytes C20 states for a text: the consecutive 2-character windows of the
\* text without its white space, each window of two hex digits giving its
\* byte, every other window giving none
C20_Claimed(text) ==
    LET hex == StripWhiteSpace(text)
        window(k) == SubSeq(hex, 2 * k - 1, Min(2 * k, Len(hex)))
        valid == SelectSeq([k \in 1..((Len(hex) + 1) \div 2) |-> window(k)],
                           LAMBDA w : Len(w) = 2 /\ IsHexDigit(w[1]) /\ IsHexDigit(w[2]))
    IN  [k \in 1..Len(valid) |-> 16 * HexDigitValue(valid[k][1]) + HexDigitValue(valid[k][2])]

\* C20: in whole-buffer mode, after every change of the hex text the buffer is,
\* in order, the bytes of exactly those 2-character windows of the
\* whitespace-stripped text that are two hex digits; any other window is
\* dropped and the windows after it keep their positions.
C20_BufferIsTwoHexDigitWindows ==
    [][op' = "updateFromHex" => wholeRawData' = C20_Claimed(editableHex')]_vars

\* the same for the texts whose windows all have two characters, both of them
\* hex digits or neither
C20_HoldsWithoutPartWindows ==
    [][(/\ op' = "updateFromHex"
        /\ LET hex == StripWhiteSpace(editableHex')
           IN  /\ Len(hex) % 2 = 0
               /\ \A k \in 1..(Len(hex) \div 2) :
                     IsHexDigit(hex[2 * k - 1]) = IsHexDigit(hex[2 * k]))
            => wholeRawData' = C20_Claimed(editableHex')]_vars

(***************************************************************************)
(* Claims about the modal's two textareas.                                 *)
(***************************************************************************)
\* C21: an edit of the modal's ASCII textarea recomputes currentHex by
\* asciiToHex with the currentHex of just before the edit as the reference:
\* a "." at position i takes the byte of that currentHex's i-th token, also
\* when an earlier hex edit made that token differ from originalHex's.
C21_DotsResolveAgainstCurrentHex ==
    [][op' = "updateHexFromAscii" =>
          modalState'.currentHex =
              modalAsciiToHex(modalState'.currentAscii, modalState.currentHex)]_vars

\* C22: while the modal is open, after every hex edit and every ASCII edit
\* (the ASCII text being characters 0x20-0x7E) the staged fields agree:
\* currentAscii is hexToAscii(currentHex).
C22_StagedFieldsAgree ==
    (/\ modalState.showModal
     /\ op \in {"updateAsciiFromHex", "updateHexFromAscii"}
     /\ IsPrintable(modalState.currentAscii))
        => modalState.currentAscii = hexToAscii(modalState.currentHex)

\* the same for the ASCII texts that have no "." where originalHex has a token
\* of a byte in 0x20-0x7E other than the "." itself
C22_AgreeUnlessDotOnPrintable ==
    (/\ modalState.showModal
     /\ op \in {"updateAsciiFromHex", "updateHexFromAscii"}
     /\ IsPrintable(modalState.currentAscii)
     /\ op = "updateHexFromAscii" =>
            \A k \in 1..Min(Len(modalState.currentAscii), Len(hexParts(modalState.originalHex))) :
                modalState.currentAscii[k] = 46 =>
                    hexToAscii(hexParts(modalState.originalHex)[k]) = <<46>>)
        => modalState.currentAscii = hexToAscii(modalState.currentHex)

(***************************************************************************)
(* Claims about updates of the raw text.                                   *)
(***************************************************************************)
\* C23: whenever the raw text changes, the buffer becomes the encoding of the
\* new text cut to the size limit and, in whole-buffer mode, the editable hex
\* becomes the lower-case two-digit hex of that buffer's bytes joined by
\* single spaces: nothing of an earlier edit of the hex text is left, in any
\* order of edits and changes of the raw text.
C23_RawChangeReplacesBufferAndHex ==
    [][raw' # raw =>
          /\ wholeRawData' = C15_Expected(raw')
          /\ Len(editableHex') = (IF Len(wholeRawData') = 0 THEN 0
                                  ELSE 3 * Len(wholeRawData') - 1)
          /\ \A k \in 1..Len(wholeRawData') :
                /\ k > 1 => editableHex'[3 * k - 3] = 32
                /\ IsLowerHex(SubSeq(editableHex', 3 * k - 2, 3 * k - 1), 2,
                              wholeRawData'[k])]_vars

\* in edit mode, as the third event, the raw text changed to "a" LF "b": the
\* buffer and the hex text are those of the new raw text
C23_Witness ==
    /\ op = "watchRaw"
    /\ editMode
    /\ events = 3
    /\ raw = <<97, 10, 98>>
    /\ wholeRawData = <<97, 10, 98>>
    /\ editableHex = <<54, 49, 32, 48, 97, 32, 54, 50>>

\* C24: an update of the raw text that arrives while the modal is open leaves
\* the staged edit alone: currentHex, originalHex, currentAscii and
\* originalAscii are unchanged by it, the modal's target row is still one of
\* the displayed rows, and an Apply after it writes the staged hex into the
\* buffer through that row.
C24_RawUpdateLeavesStagedEdit ==
    /\ [][(modalState.showModal /\ raw' # raw) =>
            /\ modalState'.showModal
            /\ modalState'.currentHex = modalState.currentHex
            /\ modalState'.originalHex = modalState.originalHex
            /\ modalState'.currentAscii = modalState.currentAscii
            /\ modalState'.originalAscii = modalState.originalAscii
            /\ modalState'.currentLine.attached]_vars
    /\ [][op' = "applyEdit" =>
            /\ modalState.currentLine.attached
            /\ rawData' = rowsToBytes([dumpLines EXCEPT ![modalState.currentLine.row].hex =
                                                           modalState.currentHex])]_vars

\* the part of C24 about the staged fields alone
C24_StagedFieldsSurviveRawUpdate ==
    [][(modalState.showModal /\ raw' # raw) =>
          /\ modalState'.showModal
          /\ modalState'.currentHex = modalState.currentHex
          /\ modalState'.originalHex = modalState.originalHex
          /\ modalState'.currentAscii = modalState.currentAscii
          /\ modalState'.originalAscii = modalState.originalAscii]_vars

\* what an Apply does after such an update: the buffer keeps the bytes of the
\* new raw text, whatever was staged
C24_ApplyAfterRawUpdateKeepsBuffer ==
    [][(op' = "applyEdit" /\ ~modalState.currentLine.attached) => rawData' = rawData]_vars

(***************************************************************************)
(* Claims about the dump rows, the diff, Cancel and Apply.                 *)
(***************************************************************************)
\* the hex tokens of a row: the pieces between its spaces
C25_Tokens(row) == SelectSeq(Split(row.hex, <<32>>), LAMBDA h : Len(h) > 0)

\* the row's ASCII preview has one character for each hex token: the token's
\* byte as a character when it is in 0x20-0x7E, "." otherwise
C25_PreviewOfTokens(row) ==
    /\ Len(row.ascii) = Len(C25_Tokens(row))
    /\ \A i \in 1..Len(C25_Tokens(row)) :
          /\ i <= Len(row.ascii)
          /\ Len(C25_Tokens(row)[i]) = 2
          /\ ~isNaN(parseInt16(C25_Tokens(row)[i]))
          /\ row.ascii[i] = byteToChar(parseInt16(C25_Tokens(row)[i])[1])

\* C25: in every reachable state of the view, every dump row's ASCII preview
\* has as many characters as the row has hex tokens, and its i-th character
\* is that of the i-th token's byte (the byte's character in 0x20-0x7E, "."
\* otherwise).
C25_EveryRowPreviewMatchesTokens ==
    \A r \in 1..Len(dumpLines) : C25_PreviewOfTokens(dumpLines[r])

\* the same for the rows of a buffer that is not empty
C25_RowsOfBytesMatchTokens ==
    Len(rawData) > 0 => \A r \in 1..Len(dumpLines) : C25_PreviewOfTokens(dumpLines[r])

\* the 2-character pieces between the single spaces of a hex text
C26_Tokens(hex) ==
    LET cuts == <<0>> \o SelectSeq([k \in 1..Len(hex) |-> IF hex[k] = 32 THEN k ELSE 0],
                                   LAMBDA k : k > 0) \o <<Len(hex) + 1>>
        pieces == [k \in 1..(Len(cuts) - 1) |-> SubSeq(hex, cuts[k] + 1, cuts[k + 1] - 1)]
    IN  SelectSeq(pieces, LAMBDA h : Len(h) = 2)

\* C26: the modal's diff has max(number of original tokens, number of current
\* tokens) entries, the tokens being the 2-character space-separated pieces of
\* originalHex and currentHex; entry i pairs the i-th original token with the
\* i-th current one ("" when absent) and is flagged changed exactly when the two
\* differ.  Pairing is by index only.
C26_DiffPairsTokensByIndex ==
    modalState.showModal =>
        LET diff == hexDiff(modalState.originalHex, modalState.currentHex)
            original == C26_Tokens(modalState.originalHex)
            current == C26_Tokens(modalState.currentHex)
        IN  /\ Len(diff) = Max(Len(original), Len(current))
            /\ \A i \in 1..Len(diff) :
                  /\ diff[i].index = i - 1
                  /\ diff[i].original = (IF i <= Len(original) THEN original[i] ELSE <<>>)
                  /\ diff[i].current = (IF i <= Len(current) THEN current[i] ELSE <<>>)
                  /\ diff[i].changed <=> diff[i].original # diff[i].current

\* the row "00 ff 0a" with the hex textarea left at "0a": three entries, all
\* flagged, the "0a" of both texts being at different positions
C26_Witness ==
    /\ modalState.showModal
    /\ op = "updateAsciiFromHex"
    /\ modalState.originalHex = <<48, 48, 32, 102, 102, 32, 48, 97>>
    /\ modalState.currentHex = <<48, 97>>
    /\ Len(hexDiff(modalState.originalHex, modalState.currentHex)) = 3
    /\ \A i \in 1..3 : hexDiff(modalState.originalHex, modalState.currentHex)[i].changed

\* C27: Cancel, after any sequence of hex and ASCII edits in the modal, closes
\* the modal and leaves the target row's hex and ASCII, every other row and the
\* buffer as they were when the modal was opened; opening the same row again
\* takes originalHex and currentHex from the row's unchanged hex.
C27_CancelDiscardsTheStage ==
    \* while the modal is open the rows are those of its opening: the target
    \* row still holds the snapshot, and the rows are the buffer's
    /\ [](modalState.showModal =>
            /\ modalState.currentLine.attached
            /\ dumpLines[modalState.currentLine.row].hex = modalState.originalHex
            /\ dumpLines = formatLines(rawData))
    /\ [][op' \in {"updateAsciiFromHex", "updateHexFromAscii", "cancelEdit"} =>
            /\ rawData' = rawData
            /\ dumpLines' = dumpLines
            /\ modalState'.originalHex = modalState.originalHex
            /\ modalState'.currentLine = modalState.currentLine]_vars
    /\ [][op' = "cancelEdit" => ~modalState'.showModal]_vars
    /\ [][(op = "cancelEdit" /\ op' = "openEditModal"
              /\ modalState'.currentLine = modalState.currentLine) =>
            /\ modalState'.originalHex = modalState.originalHex
            /\ modalState'.currentHex = modalState.originalHex]_vars

\* the row "61 0d 0a 62" opened again after a Cancel that followed an edit: the
\* stage left by the Cancel held other hex than the row
C27_Witness ==
    /\ op = "openEditModal"
    /\ events = 4
    /\ rawData = <<97, 13, 10, 98>>
    /\ modalState.currentHex = <<54, 49, 32, 48, 100, 32, 48, 97, 32, 54, 50>>
    /\ modalState.originalHex = modalState.currentHex

\* C28: if the modal's diff flags no position when Apply is pressed, Apply
\* leaves the buffer's bytes as they are.
C28_ApplyWithoutDiffKeepsBuffer ==
    [][(/\ op' = "applyEdit"
        /\ \A i \in 1..Len(hexDiff(modalState.originalHex, modalState.currentHex)) :
              ~hexDiff(modalState.originalHex, modalState.currentHex)[i].changed)
            => rawData' = rawData]_vars

\* the same for a staged hex made of 2-character pieces between single spaces
C28_KeepsBufferForTwoCharacterPieces ==
    [][(/\ op' = "applyEdit"
        /\ modalState.currentLine.attached
        /\ Len(C26_Tokens(modalState.currentHex)) = Len(C25_Tokens([hex |-> modalState.currentHex]))
        /\ \A i \in 1..Len(hexDiff(modalState.originalHex, modalState.currentHex)) :
              ~hexDiff(modalState.originalHex, modalState.currentHex)[i].changed)
            => rawData' = rawData]_vars

(***************************************************************************)
(* Claims about the commit.                                                *)
(***************************************************************************)
\* C29: a commit shows the success notification only if, in that commit, the
\* host editor's whole text was replaced by the decoded buffer; without an
\* active editor or editor view no success is reported.
C29_SuccessOnlyAfterReplacement ==
    (/\ op = "saveChanges"
     /\ \E k \in 1..Len(toasts) : toasts[k].variant = "success")
        => /\ dispatched # Undefined
           /\ dispatched = committedText(rawData)
           /\ editorDoc = dispatched

\* the same for the commits made while the host has an active editor
C29_SuccessAfterReplacementWithEditor ==
    [][(/\ op' = "saveChanges"
        /\ editorDoc # Undefined
        /\ \E k \in 1..Len(toasts') : toasts'[k].variant = "success")
            => /\ dispatched' = committedText(rawData)
               /\ editorDoc' = dispatched']_vars

\* C30: a commit made when no edit was applied since the buffer was built from
\* the replay editor's text writes back that text up to the normalisation of
\* its line endings to CRLF, for an editor text of any length: a commit
\* without edits drops and alters nothing.  Stated for the commit that follows
\* the setup at once.
C30_CommitWithoutEditsWritesEditorText ==
    [][(/\ op = "setup"
        /\ op' = "saveChanges"
        /\ dispatched' # Undefined)
            => dispatched' = ensureCRLF(editorDoc)]_vars

\* the same for the editor texts that are within the size limit once their
\* line endings are CRLF
C30_HoldsWithinTheSizeLimit ==
    [][(/\ op = "setup"
        /\ op' = "saveChanges"
        /\ dispatched' # Undefined
        /\ Len(ensureCRLF(editorDoc)) <= maxSize)
            => dispatched' = ensureCRLF(editorDoc)]_vars

====
